---------------------------- MODULE Spec2Model ----------------------------
(***************************************************************************)
(* A model of src/extractor.py: the batch loop of extract_text, the page   *)
(* classification, split_data and write_files.                             *)
(*                                                                         *)
(* Strings are sequences of one-character strings, so that len(), slicing  *)
(* and the substring test `part in tess_txt` are computed, not assumed.    *)
(* Python lists are sequences; Python's 0-based indices are kept as the    *)
(* values stored in none_idxs and temp_list, and At(s, j) reads s[j].      *)
(***************************************************************************)
EXTENDS Integers, Sequences, FiniteSets, TLC

\* ------------------------------------------------------------- bounds
\* The largest number of pages of one input document.
MaxPages == 6
\* The largest number of padding characters on either side of an OCR text
\* drawn for the classification check.
MaxPad == 3

\* ------------------------------------------------- program constants
\* code_parts window length (code[i : i + 6]).
WindowLen == 6
\* tess_text_len > 10
LenLow == 10
\* tess_text_len < 25
LenHigh == 25

\* --------------------------------------------------- Python helpers
Min(a, b) == IF a < b THEN a ELSE b

\* s[j] for a 0-based index j.
At(s, j) == s[j + 1]

\* s[a:b] for 0 <= a: the elements with index a <= j < min(b, len(s)).
Slice(s, a, b) == SubSeq(s, a + 1, Min(b, Len(s)))

\* s[a:]
SliceFrom(s, a) == SubSeq(s, a + 1, Len(s))

\* [j for j in range(a, b)]
Range(a, b) == [k \in 1..(IF b > a THEN b - a ELSE 0) |-> a + k - 1]

\* del s[j]
Del(s, j) == SubSeq(s, 1, j) \o SubSeq(s, j + 2, Len(s))

\* `part in txt` for strings.
Contains(part, txt) ==
    \E k \in 1..(Len(txt) - Len(part) + 1) :
        SubSeq(txt, k, k + Len(part) - 1) = part

Digits == <<"0", "1", "2", "3", "4", "5", "6", "7", "8", "9">>

RECURSIVE Str(_)
\* str(n) of a natural number, as f"{i+1}" formats it.
Str(n) ==
    IF n < 10 THEN <<Digits[n + 1]>>
    ELSE Str(n \div 10) \o <<Digits[(n % 10) + 1]>>

\* Python's None in img_list, and in text_list.
NoneImg == <<>>
NoneTxt == <<"None">>

\* ------------------------------------------------ page classification
code ==
    <<"4", "4", "4", "4", "X", "U", "J", "Y", "7", "6",
      "T", "F", "G", "5", "4", "3", "E", "D", "6", "7">>

\* [code[i : i + 6] for i in range(len(code) - 6)]
code_parts ==
    [k \in 1..(Len(code) - WindowLen) |-> Slice(code, k - 1, k - 1 + WindowLen)]

\* pytesseract.image_to_string inside try/except: "" when the OCR raised.
tess_txt(page) == IF page.ok THEN page.txt ELSE <<>>

\* The condition of the `if` that appends None for the page.
IsMarker(txt) ==
    /\ Len(txt) < LenHigh
    /\ Len(txt) > LenLow
    /\ \E k \in 1..Len(code_parts) : Contains(code_parts[k], txt)

\* What the page adds to img_list.
ImgEntry(page) == IF IsMarker(tess_txt(page)) THEN NoneImg ELSE page.img

\* What the page adds to text_list: None, or tess_txt[:-1].
TextEntry(page) ==
    LET t == tess_txt(page)
    IN  IF IsMarker(t) THEN NoneTxt ELSE SubSeq(t, 1, Len(t) - 1)

\* none_idxs = [i for i, n in enumerate(img_list) if n is None]
RECURSIVE NoneIdxsFrom(_, _)
NoneIdxsFrom(imgs, j) ==
    IF j >= Len(imgs) THEN <<>>
    ELSE (IF At(imgs, j) = NoneImg THEN <<j>> ELSE <<>>)
             \o NoneIdxsFrom(imgs, j + 1)

NoneIdxs(imgs) == NoneIdxsFrom(imgs, 0)

\* ------------------------------------------------------- write_files
\* f"{file[:-4]}-{i+1}.pdf"
NewFname(file, i) ==
    SubSeq(file, 1, Len(file) - 4) \o <<"-">> \o Str(i + 1)
        \o <<".", "p", "d", "f">>

\* write_files without the test for a run that ends before the last page:
\* a run of three or more pages always appends img_list[temp_list[1]:].
SavedImagesToEnd(temp_list, img_list) ==
    LET n == Len(temp_list)
        first == At(img_list, temp_list[1])
    IN  IF n = 1 THEN <<first>>
        ELSE IF n = 2 THEN <<first, At(img_list, temp_list[2])>>
        ELSE <<first>> \o SliceFrom(img_list, temp_list[2])

\* The images handed to Image.save for a run of one or more pages: the
\* image save() is called on, followed by append_images.
SavedImages(temp_list, img_list) ==
    LET n == Len(temp_list)
        first == At(img_list, temp_list[1])
    IN  IF n = 1 THEN <<first>>
        ELSE IF n = 2 THEN <<first, At(img_list, temp_list[2])>>
        ELSE IF temp_list[n] = Len(img_list) - 1
             THEN <<first>> \o SliceFrom(img_list, temp_list[2])
        ELSE <<first>> \o Slice(img_list, temp_list[2], temp_list[n] + 1)

\* write_files with the slice of the texts ending one page early.
RunTextsShort(temp_list, text_list) ==
    IF Len(temp_list) = 1 THEN <<At(text_list, temp_list[1])>>
    ELSE Slice(text_list, temp_list[1], temp_list[Len(temp_list)])

\* The texts written for a run of one or more pages.
RunTexts(temp_list, text_list) ==
    IF Len(temp_list) = 1 THEN <<At(text_list, temp_list[1])>>
    ELSE Slice(text_list, temp_list[1], temp_list[Len(temp_list)] + 1)

\* Image.save raises on None: None has no save(), and a None among
\* append_images has none of an image's attributes.
SaveRaises(images) == \E k \in 1..Len(images) : images[k] = NoneImg

\* The rows `for i in range(len(txt))` writes from row `count` on.
RowsFor(name, txt, count) ==
    [k \in 1..Len(txt) |-> [row |-> count + k - 1, name |-> name, text |-> txt[k]]]

\* A file written to the output directory replaces one of the same name.
PutFile(dir, name, content) ==
    {x \in dir : x.name # name} \cup {[name |-> name, content |-> content]}

\* write_files: ioFails is the document writer failing (Image.save raising
\* for a reason of its own) if this call reaches it. save() comes before the
\* rows, so a call that raises writes no row; outDir holds the documents
\* written completely.
write_files(temp_list, img_list, text_list, file, i, ws, count, dir, ioFails) ==
    LET new_fname == NewFname(file, i)
    IN  IF Len(temp_list) = 0
        THEN [raised |-> FALSE, worksheet |-> ws, count |-> count, outDir |-> dir]
        ELSE LET images == SavedImages(temp_list, img_list)
                 txt == RunTexts(temp_list, text_list)
             IN  IF SaveRaises(images) \/ ioFails
                 THEN [raised |-> TRUE, worksheet |-> ws, count |-> count,
                       outDir |-> dir]
                 ELSE [raised |-> FALSE,
                       worksheet |-> ws \o RowsFor(new_fname, txt, count),
                       count |-> count + Len(txt),
                       outDir |-> PutFile(dir, new_fname, <<"images", images>>)]

\* -------------------------------------------------------- split_data
\* The edge trimming of split_data, on one list: `first` and `last` tell
\* whether img_list[0] and then img_list[-1] were None.
TrimFirst(s, first) == IF first THEN Del(s, 0) ELSE s

TrimLast(s, last) == IF last THEN Del(s, Len(s) - 1) ELSE s

\* The calls of write_files the loop over none_idxs makes, in order: each
\* the ordinal argument i and the temp_list.
RECURSIVE CallsFrom(_, _, _)
CallsFrom(none_idxs, img_list_len, i) ==
    IF i >= Len(none_idxs) THEN <<>>
    ELSE LET n == At(none_idxs, i)
             these ==
                 IF i = 0 THEN <<[i |-> i, temp_list |-> Range(0, n)]>>
                 ELSE IF i = Len(none_idxs) - 1
                      THEN <<[i |-> i,
                              temp_list |-> Range(At(none_idxs, i - 1) + 1, n)],
                             [i |-> i + 1,
                              temp_list |-> Range(n + 1, img_list_len)]>>
                 ELSE <<[i |-> i,
                         temp_list |-> Range(At(none_idxs, i - 1) + 1, n)]>>
         IN  these \o CallsFrom(none_idxs, img_list_len, i + 1)

Calls(none_idxs, img_list_len) == CallsFrom(none_idxs, img_list_len, 0)

\* The calls made one after the other from call number k on, until one
\* raises; failAt is the number of the call whose document write fails
\* (0: none). `made` is the log of the calls made.
RECURSIVE RunCalls(_, _, _, _, _, _, _, _, _, _)
RunCalls(cs, k, img_list, text_list, file, ws, count, dir, failAt, made) ==
    IF k > Len(cs)
    THEN [raised |-> FALSE, worksheet |-> ws, count |-> count, outDir |-> dir,
          calls |-> made]
    ELSE LET r == write_files(cs[k].temp_list, img_list, text_list, file,
                              cs[k].i, ws, count, dir, failAt = k)
             log == Append(made, [i |-> cs[k].i, temp_list |-> cs[k].temp_list,
                                  raised |-> r.raised])
         IN  IF r.raised
             THEN [raised |-> TRUE, worksheet |-> r.worksheet, count |-> count,
                   outDir |-> r.outDir, calls |-> log]
             ELSE RunCalls(cs, k + 1, img_list, text_list, file, r.worksheet,
                           r.count, r.outDir, failAt, log)

\* split_data. The lists are trimmed in place, so the caller sees the
\* trimmed img_list, text_list and none_idxs, also when the call raises;
\* count is the returned cursor, which no caller receives when it raises.
split_data(img_list, text_list, none_idxs, file, ws, count, dir, failAt) ==
    LET first == At(img_list, 0) = NoneImg
        img1 == TrimFirst(img_list, first)
        txt1 == TrimFirst(text_list, first)
        idx1 == TrimFirst(none_idxs, first)
    IN  IF Len(img1) = 0
        THEN \* img_list[-1] of an empty list: IndexError
             [raised |-> TRUE, img_list |-> img1, text_list |-> txt1,
              none_idxs |-> idx1, worksheet |-> ws, count |-> count,
              outDir |-> dir, calls |-> <<>>]
        ELSE LET last == At(img1, Len(img1) - 1) = NoneImg
                 img2 == TrimLast(img1, last)
                 txt2 == TrimLast(txt1, last)
                 idx2 == TrimLast(idx1, last)
             IN  IF Len(idx2) = 0
                 THEN [raised |-> FALSE, img_list |-> img2, text_list |-> txt2,
                       none_idxs |-> idx2,
                       worksheet |-> ws \o RowsFor(file, txt2, count),
                       count |-> count + Len(txt2), outDir |-> dir,
                       calls |-> <<>>]
                 ELSE LET r == RunCalls(Calls(idx2, Len(img2)), 1, img2, txt2,
                                        file, ws, count, dir, failAt, <<>>)
                      IN  [raised |-> r.raised, img_list |-> img2,
                           text_list |-> txt2, none_idxs |-> idx2,
                           worksheet |-> r.worksheet, count |-> r.count,
                           outDir |-> r.outDir, calls |-> r.calls]

\* ------------------------------------------------------ extract_text
\* The listing of the input directory handed to extract_text.
files == << <<"a", ".", "p", "d", "f">>, <<"b", ".", "P", "D", "F">> >>

VARIABLES
    pc,         \* where extract_text stands
    f,          \* the loop index over files
    count,      \* extract_text's row cursor
    doc,        \* the pages of the open document: each its image and OCR result
    img_list,
    text_list,
    none_idxs,
    worksheet,  \* the rows written to the worksheet, in the order written
    outDir,     \* the files of the output directory
    closed,     \* how many times the workbook was closed
    attempted,  \* history: the loop indices whose body was entered, in order
    failed,     \* history: the loop indices whose except branch ran
    fault,      \* history: the outside failure met by the current file
    calls,      \* history: the write_files calls made for the current file
    mark        \* history: the number of rows written when the file was opened

vars ==
    <<pc, f, count, doc, img_list, text_list, none_idxs, worksheet, outDir,
      closed, attempted, failed, fault, calls, mark>>

\* A loop body without the try: the exception leaves extract_text.
HandlerPropagates == "done"

\* Where control goes when the body of the try raises: the bare except.
Handler == "except"

\* The text Tesseract returns for a marker page and for content page p of
\* the file whose loop index is fi.
MarkerText == code \o <<"\n">>

ContentText(fi, p) == <<files[fi + 1][1]>> \o Str(p) \o <<"\n">>

\* Page p of an n-page document of file fi, a marker page or a content page.
PageOf(fi, p, marker) ==
    [img |-> <<fi, p>>, ok |-> TRUE,
     txt |-> IF marker THEN MarkerText ELSE ContentText(fi, p)]

\* The documents the batch may meet: 1..MaxPages pages, any of them markers.
Docs(fi) ==
    UNION {{[k \in 1..n |-> PageOf(fi, k - 1, (k - 1) \in m)] :
               m \in SUBSET (0..(n - 1))} : n \in 1..MaxPages}

\* The state once the workbook is open and the header row is written.
Init ==
    /\ pc = "loop"
    /\ f = 0
    /\ count = 1
    /\ doc = <<>>
    /\ img_list = <<>>
    /\ text_list = <<>>
    /\ none_idxs = <<>>
    /\ worksheet = <<[row |-> 0,
                      name |-> <<"F", "i", "l", "e", " ", "N", "a", "m", "e">>,
                      text |-> <<"C", "o", "n", "t", "e", "n", "t">>]>>
    /\ outDir = {}
    /\ closed = 0
    /\ attempted = <<>>
    /\ failed = {}
    /\ fault = "none"
    /\ calls = <<>>
    /\ mark = 1

\* The loop body up to none_idxs: the document is opened, every page is
\* rendered, recognized and classified.
ReadFile ==
    /\ pc = "loop"
    /\ f < Len(files)
    /\ \E d \in Docs(f) :
        /\ doc' = d
        /\ img_list' = [k \in 1..Len(d) |-> ImgEntry(d[k])]
        /\ text_list' = [k \in 1..Len(d) |-> TextEntry(d[k])]
    /\ none_idxs' = NoneIdxs(img_list')
    /\ attempted' = Append(attempted, f)
    /\ fault' = "none"
    /\ calls' = <<>>
    /\ mark' = Len(worksheet)
    /\ pc' = "split"
    /\ UNCHANGED <<f, count, worksheet, outDir, closed, failed>>

\* fitz.open or the rendering of a page raises.
RasterFails ==
    /\ pc = "loop"
    /\ f < Len(files)
    /\ doc' = <<>>
    /\ img_list' = <<>>
    /\ text_list' = <<>>
    /\ none_idxs' = <<>>
    /\ attempted' = Append(attempted, f)
    /\ fault' = "raster"
    /\ calls' = <<>>
    /\ mark' = Len(worksheet)
    /\ pc' = Handler
    /\ UNCHANGED <<f, count, worksheet, outDir, closed, failed>>

\* worksheet, count = split_data(...)
SplitData ==
    /\ pc = "split"
    /\ \E failAt \in 0..(Len(none_idxs) + 1) :
        LET r == split_data(img_list, text_list, none_idxs, files[f + 1],
                            worksheet, count, outDir, failAt)
        IN  /\ img_list' = r.img_list
            /\ text_list' = r.text_list
            /\ none_idxs' = r.none_idxs
            /\ worksheet' = r.worksheet
            /\ outDir' = r.outDir
            /\ calls' = r.calls
            /\ count' = IF r.raised THEN count ELSE r.count
            /\ pc' = IF r.raised THEN Handler ELSE "copy"
            /\ fault' = IF failAt > 0 /\ failAt <= Len(r.calls)
                           /\ r.calls[failAt].raised
                           /\ ~SaveRaises(SavedImages(r.calls[failAt].temp_list,
                                                      r.img_list))
                        THEN "save" ELSE fault
    /\ UNCHANGED <<f, doc, closed, attempted, failed, mark>>

\* A copy made whatever none_idxs holds.
CopyConditionAlways(idxs) == TRUE

\* if len(none_idxs) == 0
CopyCondition(idxs) == Len(idxs) = 0

\* shutil.copy of the original file, which may raise.
CopyOriginal ==
    /\ pc = "copy"
    /\ CopyCondition(none_idxs)
    /\ \/ /\ outDir' = PutFile(outDir, files[f + 1], <<"copy", files[f + 1]>>)
          /\ pc' = "progress"
          /\ UNCHANGED fault
       \/ /\ pc' = Handler
          /\ fault' = "copy"
          /\ UNCHANGED outDir
    /\ UNCHANGED <<f, count, doc, img_list, text_list, none_idxs, worksheet,
                   closed, attempted, failed, calls, mark>>

SkipCopy ==
    /\ pc = "copy"
    /\ ~CopyCondition(none_idxs)
    /\ pc' = "progress"
    /\ UNCHANGED <<f, count, doc, img_list, text_list, none_idxs, worksheet,
                   outDir, closed, attempted, failed, fault, calls, mark>>

\* except: "Reading or writing ... has failed."
Except ==
    /\ pc = "except"
    /\ failed' = failed \cup {f}
    /\ pc' = "progress"
    /\ UNCHANGED <<f, count, doc, img_list, text_list, none_idxs, worksheet,
                   outDir, closed, attempted, fault, calls, mark>>

\* The progress bar, and the step of the for loop.
Progress ==
    /\ pc = "progress"
    /\ f' = f + 1
    /\ pc' = "loop"
    /\ UNCHANGED <<count, doc, img_list, text_list, none_idxs, worksheet,
                   outDir, closed, attempted, failed, fault, calls, mark>>

\* The loop is over: the with statement closes the workbook.
CloseWorkbook ==
    /\ pc = "loop"
    /\ f = Len(files)
    /\ closed' = closed + 1
    /\ pc' = "done"
    /\ UNCHANGED <<f, count, doc, img_list, text_list, none_idxs, worksheet,
                   outDir, attempted, failed, fault, calls, mark>>

Next ==
    \/ ReadFile
    \/ RasterFails
    \/ SplitData
    \/ CopyOriginal
    \/ SkipCopy
    \/ Except
    \/ Progress
    \/ CloseWorkbook

Spec == Init /\ [][Next]_vars

\* ------------------------------------- the classification of one page
\* The OCR texts drawn for one page: a piece of the marker string, with up
\* to MaxPad other characters before and after it.
Pad(n) == [k \in 1..n |-> "x"]

TextFamily ==
    {Pad(a) \o SubSeq(code, s, e) \o Pad(b) :
        a \in 0..MaxPad, b \in 0..MaxPad,
        s \in 1..(Len(code) + 1), e \in 0..Len(code)}

InitClassify ==
    /\ pc = "ocr"
    /\ f = 0
    /\ count = 1
    /\ doc \in {<<[img |-> <<0, 0>>, ok |-> o, txt |-> t]>> :
                   o \in BOOLEAN, t \in TextFamily}
    /\ img_list = <<>>
    /\ text_list = <<>>
    /\ none_idxs = <<>>
    /\ worksheet = <<>>
    /\ outDir = {}
    /\ closed = 0
    /\ attempted = <<0>>
    /\ failed = {}
    /\ fault = "none"
    /\ calls = <<>>
    /\ mark = 0

\* One turn of the loop over the pages: OCR, the test, the two appends.
ClassifyPage ==
    /\ pc = "ocr"
    /\ img_list' = Append(img_list, ImgEntry(doc[1]))
    /\ text_list' = Append(text_list, TextEntry(doc[1]))
    /\ pc' = "classified"
    /\ UNCHANGED <<f, count, doc, none_idxs, worksheet, outDir, closed,
                   attempted, failed, fault, calls, mark>>

SpecClassify == InitClassify /\ [][ClassifyPage]_vars

\* ------------------------------------------- one call of write_files
\* The lists of any document, before any trimming, and an empty report.
InitWF ==
    /\ pc = "write_files"
    /\ f = 0
    /\ count = 1
    /\ doc \in Docs(0)
    /\ img_list = [k \in 1..Len(doc) |-> ImgEntry(doc[k])]
    /\ text_list = [k \in 1..Len(doc) |-> TextEntry(doc[k])]
    /\ none_idxs = NoneIdxs(img_list)
    /\ worksheet = <<>>
    /\ outDir = {}
    /\ closed = 0
    /\ attempted = <<0>>
    /\ failed = {}
    /\ fault = "none"
    /\ calls = <<>>
    /\ mark = 0

\* write_files on any contiguous temp_list of the document, with any
\* ordinal argument, the document writer failing or not.
WriteFilesCall ==
    /\ pc = "write_files"
    /\ \E a \in 0..Len(img_list), b \in 0..Len(img_list), i \in 0..2,
          ioFails \in BOOLEAN :
        LET r == write_files(Range(a, b), img_list, text_list, files[f + 1],
                             i, worksheet, count, outDir, ioFails)
        IN  /\ a <= b
            /\ worksheet' = r.worksheet
            /\ count' = r.count
            /\ outDir' = r.outDir
            /\ calls' = <<[i |-> i, temp_list |-> Range(a, b),
                           raised |-> r.raised]>>
            /\ fault' = IF ioFails /\ a < b THEN "save" ELSE "none"
    /\ pc' = "written"
    /\ UNCHANGED <<f, doc, img_list, text_list, none_idxs, closed, attempted,
                   failed, mark>>

SpecWF == InitWF /\ [][WriteFilesCall]_vars

\* ===================================================== the properties
\* The file of the current turn of the loop.
file == files[f + 1]

Pages == 0..(Len(doc) - 1)

\* The pages of the open document classified as markers, and the others.
MarkerPages == {p \in Pages : IsMarker(tess_txt(doc[p + 1]))}

ContentPages == Pages \ MarkerPages

\* The content pages in ascending order.
ContentSeq == SelectSeq([k \in 1..Len(doc) |-> k - 1], LAMBDA p : p \in ContentPages)

\* The markers that are neither page 0 nor page N-1.
TrimmedMarkers == MarkerPages \ {0, Len(doc) - 1}

\* The text the loop over the pages stores for page p: tess_txt[:-1].
StoredText(p) == SubSeq(doc[p + 1].txt, 1, Len(doc[p + 1].txt) - 1)

\* split_data has been called for the open document (and has returned or
\* raised).
Split == pc \in {"copy", "except", "progress"} /\ doc # <<>>

\* The turn of the loop for the open document is over.
FileDone == pc \in {"except", "progress"} /\ doc # <<>>

\* The rows written since the document was opened.
FileRows == SubSeq(worksheet, mark + 1, Len(worksheet))

\* The page of the document an index into the trimmed lists stands at: the
\* trimmed lists lack page 0 when page 0 was a marker.
Offset == IF 0 \in MarkerPages THEN 1 ELSE 0

\* split_data took its branch for a document without separator.
NoSplitTaken ==
    /\ calls = <<>>
    /\ none_idxs = <<>>
    /\ pc \in {"copy", "progress"} \/ fault = "copy"

\* The runs split_data emitted, as sequences of pages of the document.
EmittedRuns ==
    IF calls # <<>>
    THEN [k \in 1..Len(calls) |->
             [j \in 1..Len(calls[k].temp_list) |-> calls[k].temp_list[j] + Offset]]
    ELSE IF NoSplitTaken
         THEN <<[j \in 1..Len(img_list) |-> j - 1 + Offset]>>
    ELSE <<>>

\* The places of page p among the emitted runs.
PlacesOf(p) ==
    {<<k, j>> \in (1..Len(EmittedRuns)) \X (1..MaxPages + 1) :
        j <= Len(EmittedRuns[k]) /\ EmittedRuns[k][j] = p}

\* The files of the output directory that come from the current file: its
\* copy, or a document split from it.
FileOutputs ==
    {x \in outDir :
        x.name = file \/ \E i \in 0..(MaxPages + 1) : x.name = NewFname(file, i)}

\* {stem}-{ordinal}.pdf for the current file and the ordinal argument i.
DocName(i) == <<file[1], "-", Digits[i + 2], ".", "p", "d", "f">>

\* C1: with no outside failure, the runs split_data emits and the marker
\* pages partition the pages of the document: every content page lies in
\* exactly one emitted run, and no marker page lies in any.
C1_Partition ==
    (Split /\ fault = "none") =>
        /\ \A p \in ContentPages : Cardinality(PlacesOf(p)) = 1
        /\ \A p \in MarkerPages : PlacesOf(p) = {}

\* The positions of the separators that remain in the trimmed img_list.
Remaining == NoneIdxs(img_list)

\* The k+1 runs around the k remaining separators.
RunsAround(m, n) ==
    [j \in 1..(Len(m) + 1) |->
        Range(IF j = 1 THEN 0 ELSE m[j - 1] + 1,
              IF j = Len(m) + 1 THEN n ELSE m[j])]

\* C2: with k >= 1 markers left after the edge trimming (k = 1 included),
\* split_data emits exactly the k+1 runs [0, m_1-1], [m_(i-1)+1, m_i-1] and
\* the tail [m_k+1, N-1], and one report row per page of these runs.
C2_RunsAroundMarkers ==
    (Split /\ fault = "none" /\ Len(Remaining) >= 1) =>
        /\ [k \in 1..Len(calls) |-> calls[k].temp_list]
               = RunsAround(Remaining, Len(img_list))
        /\ Len(FileRows) = Len(img_list) - Len(Remaining)

\* C3: a document whose pages are all markers gives no run, no report row
\* and no file in the output directory, and its turn does not take the
\* except branch.
C3_AllMarkers ==
    (FileDone /\ fault = "none" /\ MarkerPages = Pages) =>
        /\ pc # "except"
        /\ f \notin failed
        /\ calls = <<>>
        /\ FileRows = <<>>
        /\ FileOutputs = {}

\* C4: a document with a content page and no marker left after the edge
\* trimming gets one row per content page, in ascending page order, under
\* the name of the source file; write_files is not called; and, the copy
\* not failing, the original is copied and no rebuilt document is written.
\* A document with a marker left after the trimming is not copied.
C4_NoSplit ==
    FileDone =>
        /\ (TrimmedMarkers = {} /\ ContentPages # {}) =>
              /\ calls = <<>>
              /\ Len(FileRows) = Len(ContentSeq)
              /\ \A k \in 1..Len(FileRows) :
                    /\ FileRows[k].name = file
                    /\ FileRows[k].text = StoredText(ContentSeq[k])
                    /\ FileRows[k].row = FileRows[1].row + k - 1
              /\ fault = "none" =>
                    /\ pc = "progress"
                    /\ FileOutputs = {[name |-> file, content |-> <<"copy", file>>]}
              /\ fault # "none" => fault = "copy" /\ FileOutputs = {}
        /\ TrimmedMarkers # {} => \A x \in outDir : x.name # file

C4_Witness ==
    /\ pc = "progress"
    /\ f = 1
    /\ fault = "none"
    /\ Len(doc) >= 4
    /\ MarkerPages = {0, Len(doc) - 1}
    /\ Len(FileRows) = Len(doc) - 2
    /\ [name |-> file, content |-> <<"copy", file>>] \in outDir

\* The rows of the calls from call k on that did not raise, each under the
\* name of its document and with the text stored for its page.
RECURSIVE RowsOfCalls(_)
RowsOfCalls(k) ==
    IF k > Len(calls) THEN <<>>
    ELSE (IF calls[k].raised THEN <<>>
          ELSE [j \in 1..Len(calls[k].temp_list) |->
                   [name |-> DocName(calls[k].i),
                    text |-> StoredText(calls[k].temp_list[j] + Offset)]])
             \o RowsOfCalls(k + 1)

C6_FailureIsolation ==
    /\ attempted = [k \in 1..Len(attempted) |-> k - 1]
    /\ Len(attempted) = (IF pc \in {"loop", "done"} THEN f ELSE f + 1)
    /\ failed \subseteq 0..f
    /\ closed = (IF pc = "done" THEN 1 ELSE 0)
    /\ pc = "done" => Len(attempted) = Len(files)

C6_Witness ==
    /\ pc = "done"
    /\ closed = 1
    /\ failed = {0}
    /\ attempted = <<0, 1>>
    /\ Len(worksheet) > 1
    /\ \E x \in outDir : x.name[1] = "b"

\* C7: no row of the worksheet is written twice: every row is written at
\* an index no earlier write used.
C7_NoRowReuse ==
    \A j \in 1..Len(worksheet) : \A k \in 1..Len(worksheet) :
        j # k => worksheet[j].row # worksheet[k].row

\* The run of the one call made, and whether it holds content pages only.
TheCall == calls[1]

RunOfContent ==
    \A j \in 1..Len(TheCall.temp_list) :
        At(img_list, TheCall.temp_list[j]) # NoneImg

\* C8: write_files on a contiguous run of content pages, the document
\* writer not failing, writes exactly the file {stem}-{ordinal}.pdf holding
\* the images of the run's pages in ascending order, and one row per page
\* with the texts in the same order; on an empty run it writes no file and
\* no row and does not raise. The ordinal is the position of the call among
\* the calls split_data makes, empty runs counted.
C8_Assembly ==
    pc = "written" =>
        LET run == TheCall.temp_list
        IN  /\ run = <<>> =>
                  /\ ~TheCall.raised
                  /\ outDir = {}
                  /\ worksheet = <<>>
                  /\ count = 1
            /\ (run # <<>> /\ RunOfContent /\ fault = "none") =>
                  /\ ~TheCall.raised
                  /\ outDir =
                        {[name |-> DocName(TheCall.i),
                          content |-> <<"images",
                              [j \in 1..Len(run) |-> <<f, run[j]>>]>>]}
                  /\ worksheet =
                        [j \in 1..Len(run) |->
                            [row |-> j, name |-> DocName(TheCall.i),
                             text |-> StoredText(run[j])]]
                  /\ count = 1 + Len(run)
            /\ \A k \in 1..Len(Calls(none_idxs, Len(img_list))) :
                  Calls(none_idxs, Len(img_list))[k].i = k - 1

C8_Witness ==
    /\ pc = "written"
    /\ fault = "none"
    /\ RunOfContent
    /\ Len(TheCall.temp_list) >= 3
    /\ TheCall.temp_list[Len(TheCall.temp_list)] < Len(img_list) - 1
    /\ TheCall.i = 1
    /\ Cardinality(outDir) = 1
    /\ Len(worksheet) = Len(TheCall.temp_list)

\* What split_data does with document d from an empty report.
Reference(d) ==
    LET imgs == [k \in 1..Len(d) |-> ImgEntry(d[k])]
    IN  split_data(imgs, [k \in 1..Len(d) |-> TextEntry(d[k])], NoneIdxs(imgs),
                   file, <<>>, 1, {}, 0)

\* The runs of the calls cs as sequences of the images of their pages.
RunImages(imgs, cs) ==
    [k \in 1..Len(cs) |->
        [j \in 1..Len(cs[k].temp_list) |-> At(imgs, cs[k].temp_list[j])]]

\* The current document gave the runs and the row texts that d gives.
SameOutcomeAs(d) ==
    LET r == Reference(d)
    IN  /\ pc = "progress"
        /\ ~r.raised
        /\ RunImages(img_list, calls) = RunImages(r.img_list, r.calls)
        /\ [k \in 1..Len(FileRows) |-> FileRows[k].text]
               = [k \in 1..Len(r.worksheet) |-> r.worksheet[k].text]

\* C9: a marker at page 0 followed by a content page, or at page N-1 after
\* a content page, is ignored: the document is processed without failure
\* and gives the runs and the row texts of the document without that page.
C9_BoundaryMarkerIgnored ==
    (FileDone /\ fault = "none" /\ Len(doc) >= 2) =>
        /\ (0 \in MarkerPages /\ 1 \in ContentPages) => SameOutcomeAs(Tail(doc))
        /\ (Len(doc) - 1 \in MarkerPages /\ Len(doc) - 2 \in ContentPages) =>
              SameOutcomeAs(SubSeq(doc, 1, Len(doc) - 1))

\* All the windows of the marker string: those starting at 0..L-6.
AllWindows ==
    [k \in 1..(Len(code) - WindowLen + 1) |-> SubSeq(code, k, k + WindowLen - 1)]

\* C10: a page is a marker iff its text is longer than 10 and shorter than
\* 25 characters and holds one of all the length-6 windows of the marker
\* string, the last one included; a page whose OCR failed is content.
C10_Classification ==
    pc = "classified" =>
        LET t == tess_txt(doc[1])
        IN  /\ (img_list[1] = NoneImg) <=>
                  /\ Len(t) > 10
                  /\ Len(t) < 25
                  /\ \E k \in 1..Len(AllWindows) : Contains(AllWindows[k], t)
            /\ ~doc[1].ok => img_list[1] # NoneImg

=============================================================================
